---------------------------- MODULE Spec2Model ----------------------------
(***************************************************************************)
(* Model of src/startup_tracker.py: the StartupTracker class               *)
(* (load_manual_data, filter_startups, export_to_csv, display_summary)     *)
(* and main().                                                             *)
(*                                                                         *)
(* Text is modelled as a sequence of one-character strings, so that        *)
(* str.replace, str.upper, str.lower, the "in" substring test, float()     *)
(* and the f"${funding:,.0f}" formatting are computed character by         *)
(* character.  A funding amount is an exact decimal number (sign, integer  *)
(* digits, fractional digits); Python's binary float agrees with it on     *)
(* every funding text the model draws (at most one fractional digit        *)
(* reaches the formatting, and all integers are below 2^53).               *)
(***************************************************************************)
EXTENDS Integers, Sequences, FiniteSets, TLC

VARIABLES
    input_file,      \* content of 'input_data.csv': NoFile, Unreadable or its rows
    results_file,    \* content of 'startup_results.csv': NoFile or its data rows
    template_file,   \* TRUE once 'input_data_template.csv' has been written
    startups,        \* self.startups: the list of dicts of csv.DictReader
    filtered,        \* the list filter_startups returned, as references
                     \* (indices) into startups: the same dict objects
    skipped,         \* the names printed by "Skipping row due to parsing error"
    raised,          \* the exception that escaped the last call, or "none"
    locations,       \* display_summary: the dict location -> count
    sorted_startups, \* display_summary: the ranking, as references into startups
    pc,              \* what the tracker (or main) did last
    calls,           \* history: what each filter_startups call so far produced
    before,          \* history: self.startups as it was before the last call
    funding_amount,  \* a record's 'funding_amount' text, normalized on its own
    funding_str,     \* filter_startups: the cleaned funding text
    funding          \* filter_startups: the amount parsed from funding_str

vars == <<input_file, results_file, template_file, startups, filtered, skipped,
          raised, locations, sorted_startups, pc, calls, before,
          funding_amount, funding_str, funding>>

-----------------------------------------------------------------------------
(* Bounds of the model *)

\* longest funding text enumerated exhaustively over FundingAlphabet
MaxFundingLen == 3

\* most rows in an input file
MaxRows == 2

\* most filter_startups calls made on one tracker
MaxCalls == 2

-----------------------------------------------------------------------------
(* Text *)

Range(s) == {s[i] : i \in 1..Len(s)}

SetMin(S) == CHOOSE x \in S : \A y \in S : x <= y

SetMax(S) == CHOOSE x \in S : \A y \in S : x >= y

\* the value None, which no text equals: every element of a text is one character
None == <<"None">>

ToUpperTable ==
    "a" :> "A" @@ "b" :> "B" @@ "c" :> "C" @@ "d" :> "D" @@ "e" :> "E" @@
    "f" :> "F" @@ "g" :> "G" @@ "h" :> "H" @@ "i" :> "I" @@ "j" :> "J" @@
    "k" :> "K" @@ "l" :> "L" @@ "m" :> "M" @@ "n" :> "N" @@ "o" :> "O" @@
    "p" :> "P" @@ "q" :> "Q" @@ "r" :> "R" @@ "s" :> "S" @@ "t" :> "T" @@
    "u" :> "U" @@ "v" :> "V" @@ "w" :> "W" @@ "x" :> "X" @@ "y" :> "Y" @@
    "z" :> "Z"

\* str.upper()
Upper(s) ==
    [i \in 1..Len(s) |->
        IF s[i] \in DOMAIN ToUpperTable THEN ToUpperTable[s[i]] ELSE s[i]]

ToLowerTable ==
    "A" :> "a" @@ "B" :> "b" @@ "C" :> "c" @@ "D" :> "d" @@ "E" :> "e" @@
    "F" :> "f" @@ "G" :> "g" @@ "H" :> "h" @@ "I" :> "i" @@ "J" :> "j" @@
    "K" :> "k" @@ "L" :> "l" @@ "M" :> "m" @@ "N" :> "n" @@ "O" :> "o" @@
    "P" :> "p" @@ "Q" :> "q" @@ "R" :> "r" @@ "S" :> "s" @@ "T" :> "t" @@
    "U" :> "u" @@ "V" :> "v" @@ "W" :> "w" @@ "X" :> "x" @@ "Y" :> "y" @@
    "Z" :> "z"

\* str.lower()
Lower(s) ==
    [i \in 1..Len(s) |->
        IF s[i] \in DOMAIN ToLowerTable THEN ToLowerTable[s[i]] ELSE s[i]]

\* str.replace(c, ''): every occurrence of the character c removed
Remove(s, c) == SelectSeq(s, LAMBDA x : x # c)

\* needle in hay: substring containment
Contains(hay, needle) ==
    \E i \in 0..(Len(hay) - Len(needle)) :
        SubSeq(hay, i + 1, i + Len(needle)) = needle

\* str.strip() as float() applies it to its argument
Strip(s) ==
    LET keep == {i \in 1..Len(s) : s[i] # " "}
    IN  IF keep = {} THEN <<>> ELSE SubSeq(s, SetMin(keep), SetMax(keep))

-----------------------------------------------------------------------------
(* Numbers: exact decimals *)

Digits == {"0", "1", "2", "3", "4", "5", "6", "7", "8", "9"}

DigitVal ==
    "0" :> 0 @@ "1" :> 1 @@ "2" :> 2 @@ "3" :> 3 @@ "4" :> 4 @@
    "5" :> 5 @@ "6" :> 6 @@ "7" :> 7 @@ "8" :> 8 @@ "9" :> 9

DigitChar == <<"0", "1", "2", "3", "4", "5", "6", "7", "8", "9">>

RECURSIVE StripLeadingZeros(_)
StripLeadingZeros(ds) ==
    IF ds # <<>> /\ Head(ds) = "0" THEN StripLeadingZeros(Tail(ds)) ELSE ds

RECURSIVE StripTrailingZeros(_)
StripTrailingZeros(ds) ==
    IF ds # <<>> /\ ds[Len(ds)] = "0"
    THEN StripTrailingZeros(SubSeq(ds, 1, Len(ds) - 1))
    ELSE ds

\* what float() raises on text that is no numeric literal
ValueError == [ok |-> FALSE, neg |-> FALSE, ip |-> <<>>, fp |-> <<>>]

\* the number (-1)^neg * ip.fp, in normal form: no leading zero in ip, no
\* trailing zero in fp, so that equal numbers are equal records
MkDec(neg, ip, fp) ==
    LET i == StripLeadingZeros(ip)
        f == StripTrailingZeros(fp)
    IN  [ok |-> TRUE, neg |-> neg /\ (i # <<>> \/ f # <<>>), ip |-> i, fp |-> f]

\* float(s) on the literals  [ws] [+|-] (digits [. [digits]] | . digits) [ws];
\* anything else over the model's characters raises ValueError
ParseFloat(s) ==
    LET t == Strip(s)
        signed == t # <<>> /\ t[1] \in {"+", "-"}
        body == IF signed THEN Tail(t) ELSE t
        dots == {i \in 1..Len(body) : body[i] = "."}
        wellformed ==
            /\ \A i \in 1..Len(body) : body[i] \in Digits \cup {"."}
            /\ \E i \in 1..Len(body) : body[i] \in Digits
            /\ Cardinality(dots) <= 1
        p == IF dots = {} THEN Len(body) + 1 ELSE SetMin(dots)
    IN  IF wellformed
        THEN MkDec(signed /\ t[1] = "-", SubSeq(body, 1, p - 1),
                   SubSeq(body, p + 1, Len(body)))
        ELSE ValueError

Zeros(n) == [i \in 1..n |-> "0"]

\* d * 10^e, as  d * 1_000_000  (e = 6)  and  d * 1_000_000_000  (e = 9)
\* compute it; a ValueError raised while evaluating d propagates
TimesPow10(d, e) ==
    IF ~d.ok THEN d
    ELSE LET f == d.fp \o Zeros(e)
         IN  MkDec(d.neg, d.ip \o SubSeq(f, 1, e), SubSeq(f, e + 1, Len(f)))

RECURSIVE IntDigits(_)
\* the decimal digits of a natural number
IntDigits(n) ==
    IF n < 10 THEN <<DigitChar[n + 1]>>
    ELSE Append(IntDigits(n \div 10), DigitChar[(n % 10) + 1])

\* int -> float, as the comparison  funding >= self.min_funding  converts
FromInt(n) == MkDec(FALSE, IntDigits(n), <<>>)

RECURSIVE LexLess(_, _)
\* x < y for digit sequences of the same length
LexLess(x, y) ==
    /\ x # <<>>
    /\ \/ DigitVal[Head(x)] < DigitVal[Head(y)]
       \/ Head(x) = Head(y) /\ LexLess(Tail(x), Tail(y))

\* a < b for non-negative decimals
MagLess(a, b) ==
    LET n == IF Len(a.fp) > Len(b.fp) THEN Len(a.fp) ELSE Len(b.fp)
        fa == a.fp \o Zeros(n - Len(a.fp))
        fb == b.fp \o Zeros(n - Len(b.fp))
    IN  \/ Len(a.ip) < Len(b.ip)
        \/ Len(a.ip) = Len(b.ip) /\ LexLess(a.ip \o fa, b.ip \o fb)

\* a < b
DecLess(a, b) ==
    IF a.neg /\ ~b.neg THEN TRUE
    ELSE IF ~a.neg /\ b.neg THEN FALSE
    ELSE IF a.neg THEN MagLess(b, a)
    ELSE MagLess(a, b)

\* a >= b
DecGE(a, b) == ~DecLess(a, b)

RECURSIVE Increment(_)
\* ds + 1 on an integer's digits
Increment(ds) ==
    IF ds = <<>> THEN <<"1">>
    ELSE IF ds[Len(ds)] = "9"
         THEN Append(Increment(SubSeq(ds, 1, Len(ds) - 1)), "0")
         ELSE Append(SubSeq(ds, 1, Len(ds) - 1),
                     DigitChar[DigitVal[ds[Len(ds)]] + 2])

\* the integer digits of a non-negative d rounded to no decimal places, ties
\* to even, as the format specification  .0f  rounds
RoundHalfEven(d) ==
    LET last == IF d.ip = <<>> THEN 0 ELSE DigitVal[d.ip[Len(d.ip)]]
        up == /\ d.fp # <<>>
              /\ \/ DigitVal[d.fp[1]] > 5
                 \/ DigitVal[d.fp[1]] = 5 /\ Len(d.fp) > 1
                 \/ DigitVal[d.fp[1]] = 5 /\ Len(d.fp) = 1 /\ last % 2 = 1
    IN  IF up THEN Increment(d.ip) ELSE d.ip

RECURSIVE Grouped(_)
\* the  ,  of the format specification: a comma before every group of three
\* digits counted from the right
Grouped(ds) ==
    IF Len(ds) <= 3 THEN ds
    ELSE Grouped(SubSeq(ds, 1, Len(ds) - 3)) \o <<",">>
         \o SubSeq(ds, Len(ds) - 2, Len(ds))

\* f"${funding:,.0f}"  for funding >= 0
FormatFunding(d) ==
    LET r == RoundHalfEven(d)
    IN  <<"$">> \o Grouped(IF r = <<>> THEN <<"0">> ELSE r)

-----------------------------------------------------------------------------
(* StartupTracker.__init__ *)

min_funding == 100000000

target_regions ==
    << <<"u", "s", "a">>,
       <<"u", "n", "i", "t", "e", "d", " ", "s", "t", "a", "t", "e", "s">>,
       <<"u", "s">>,
       <<"a", "m", "e", "r", "i", "c", "a">>,
       <<"e", "u", "r", "o", "p", "e">>,
       <<"u", "k">>,
       <<"u", "n", "i", "t", "e", "d", " ", "k", "i", "n", "g", "d", "o", "m">>,
       <<"g", "e", "r", "m", "a", "n", "y">>,
       <<"f", "r", "a", "n", "c", "e">>,
       <<"s", "p", "a", "i", "n">>,
       <<"i", "t", "a", "l", "y">>,
       <<"n", "e", "t", "h", "e", "r", "l", "a", "n", "d", "s">>,
       <<"s", "w", "e", "d", "e", "n">>,
       <<"i", "r", "e", "l", "a", "n", "d">>,
       <<"b", "e", "l", "g", "i", "u", "m">>,
       <<"a", "u", "s", "t", "r", "i", "a">>,
       <<"d", "e", "n", "m", "a", "r", "k">>,
       <<"f", "i", "n", "l", "a", "n", "d">>,
       <<"n", "o", "r", "w", "a", "y">>,
       <<"s", "w", "i", "t", "z", "e", "r", "l", "a", "n", "d">>,
       <<"p", "o", "r", "t", "u", "g", "a", "l">>,
       <<"p", "o", "l", "a", "n", "d">> >>

-----------------------------------------------------------------------------
(* filter_startups: the body of its loop *)

\* dict.get(key, default)
Get(d, key, default) == IF key \in DOMAIN d THEN d[key] ELSE default

\* .replace(',', '').replace('$', '')
CleanFunding(text) == Remove(Remove(text, ","), "$")

\* the funding text with the suffix letters treated as an 'M' branch that
\* also swallows a 'B': the bug of reading "M before B" as "M wins, B ignored"
ParseFundingIgnoringB(text) ==
    IF "M" \in Range(Upper(text))
    THEN TimesPow10(ParseFloat(Remove(Remove(Upper(text), "M"), "B")), 6)
    ELSE IF "B" \in Range(Upper(text))
    THEN TimesPow10(ParseFloat(Remove(Upper(text), "B")), 9)
    ELSE ParseFloat(text)

\* the bug of answering 0 for text that is no number instead of raising
ParseFundingSilentZero(text) ==
    LET d == IF "M" \in Range(Upper(text))
             THEN TimesPow10(ParseFloat(Remove(Upper(text), "M")), 6)
             ELSE IF "B" \in Range(Upper(text))
             THEN TimesPow10(ParseFloat(Remove(Upper(text), "B")), 9)
             ELSE ParseFloat(text)
    IN  IF d.ok THEN d ELSE MkDec(FALSE, <<>>, <<>>)

\* the if / elif / else over the cleaned funding text: the amount, or ValueError
ParseFunding(text) ==
    IF "M" \in Range(Upper(text))
    THEN TimesPow10(ParseFloat(Remove(Upper(text), "M")), 6)
    ELSE IF "B" \in Range(Upper(text))
    THEN TimesPow10(ParseFloat(Remove(Upper(text), "B")), 9)
    ELSE ParseFloat(text)

\* funding > self.min_funding: the bug of a strict threshold
meets_funding_strict(amount) == DecLess(FromInt(min_funding), amount)

\* funding >= self.min_funding
meets_funding(amount) == DecGE(amount, FromInt(min_funding))

\* any(region in location for region in self.target_regions)
meets_location(location) ==
    \E r \in 1..Len(target_regions) : Contains(location, target_regions[r])

\* status in ('active', ''): the bug of an exact match
meets_status_exact(status) ==
    status = <<"a", "c", "t", "i", "v", "e">> \/ status = <<>>

\* 'active' in status or status == ''
meets_status(status) ==
    Contains(status, <<"a", "c", "t", "i", "v", "e">>) \/ status = <<>>

\* ipo_status not in ['ipo', 'public', 'listed']
not_ipod(ipo_status) ==
    ipo_status \notin {<<"i", "p", "o">>, <<"p", "u", "b", "l", "i", "c">>,
                       <<"l", "i", "s", "t", "e", "d">>}

\* the bug of storing the normalized amount over the record's own funding text
AnnotateOverAmount(startup, amount) ==
    ("funding_amount" :> FormatFunding(amount)) @@
    ("funding_amount_parsed" :> FormatFunding(amount)) @@ startup

\* startup['funding_amount_parsed'] = f"${funding:,.0f}", on the dict itself
Annotate(startup, amount) ==
    ("funding_amount_parsed" :> FormatFunding(amount)) @@ startup

\* One pass of the loop body over the dict startup: what became of it
\* ("eligible", "ineligible", "skipped" by the except clause, or
\* "AttributeError", which the except clause does not catch) and the dict
\* as the pass leaves it.
EvaluateBody(startup) ==
    LET raw == Get(startup, "funding_amount", <<"0">>)
    IN  IF raw = None
        THEN [outcome |-> "AttributeError", startup |-> startup]
        ELSE
        LET amount == ParseFunding(CleanFunding(raw))
            loc == Get(startup, "location", <<>>)
            st == Get(startup, "status", <<>>)
            ipo == Get(startup, "ipo_status", <<>>)
        IN  IF ~amount.ok
            THEN [outcome |-> "skipped", startup |-> startup]
            ELSE IF loc = None \/ st = None \/ ipo = None
            THEN [outcome |-> "AttributeError", startup |-> startup]
            ELSE IF /\ meets_funding(amount)
                    /\ meets_location(Lower(loc))
                    /\ meets_status(Lower(st))
                    /\ not_ipod(Lower(ipo))
            THEN [outcome |-> "eligible", startup |-> Annotate(startup, amount)]
            ELSE [outcome |-> "ineligible", startup |-> startup]

\* the bug of passing over a dict an earlier call has already annotated
EvaluateOnce(startup) ==
    IF "funding_amount_parsed" \in DOMAIN startup
    THEN [outcome |-> "ineligible", startup |-> startup]
    ELSE EvaluateBody(startup)

\* the loop body
Evaluate(startup) == EvaluateBody(startup)

RECURSIVE FilterLoop(_, _)
\* for startup in self.startups, from the i-th dict on.  acc holds the dicts
\* (annotated in place), the list filtered, the names reported as skipped, the
\* outcome of every dict evaluated so far, and the exception that ended the
\* loop, if one did.
FilterLoop(acc, i) ==
    IF i > Len(acc.startups) THEN acc
    ELSE
    LET e == Evaluate(acc.startups[i])
        seen == [acc EXCEPT !.outcomes = Append(@, e.outcome)]
    IN  CASE e.outcome = "AttributeError" ->
                [seen EXCEPT !.raised = "AttributeError"]
          [] e.outcome = "eligible" ->
                FilterLoop([seen EXCEPT !.startups[i] = e.startup,
                                        !.filtered = Append(@, i)], i + 1)
          [] e.outcome = "skipped" ->
                FilterLoop([seen EXCEPT !.skipped =
                    Append(@, Get(acc.startups[i], "company_name",
                                  <<"U", "n", "k", "n", "o", "w", "n">>))], i + 1)
          [] OTHER -> FilterLoop(seen, i + 1)

\* filter_startups on the list dicts
RunFilter(dicts) ==
    FilterLoop([startups |-> dicts, filtered |-> <<>>, skipped |-> <<>>,
                outcomes |-> <<>>, raised |-> "none"], 1)

-----------------------------------------------------------------------------
(* display_summary *)

\* the bug of tallying under the lower-cased location
TallyKeyLower(startup) ==
    Lower(Get(startup, "location", <<"U", "n", "k", "n", "o", "w", "n">>))

\* loc = startup.get('location', 'Unknown')
TallyKey(startup) ==
    Get(startup, "location", <<"U", "n", "k", "n", "o", "w", "n">>)

RECURSIVE CountLocations(_, _, _)
\* locations[loc] = locations.get(loc, 0) + 1, over the references refs
CountLocations(dicts, refs, acc) ==
    IF refs = <<>> THEN acc
    ELSE LET loc == TallyKey(dicts[Head(refs)])
         IN  CountLocations(dicts, Tail(refs),
                            (loc :> (Get(acc, loc, 0) + 1)) @@ acc)

\* float(x.get('funding_amount_parsed', '$0').replace('$', '').replace(',', ''))
SortKey(startup) ==
    ParseFloat(Remove(Remove(
        Get(startup, "funding_amount_parsed", <<"$", "0">>), "$"), ","))

RECURSIVE SortedDescending(_, _, _)
\* sorted(..., key=..., reverse=True): a stable sort, so a reference goes
\* behind every one already placed whose key is not smaller
SortedDescending(dicts, refs, acc) ==
    IF refs = <<>> THEN acc
    ELSE LET r == Head(refs)
             ahead == {k \in 1..Len(acc) :
                          ~DecLess(SortKey(dicts[acc[k]]), SortKey(dicts[r]))}
             n == Cardinality(ahead)
         IN  SortedDescending(dicts, Tail(refs),
                 SubSeq(acc, 1, n) \o <<r>> \o SubSeq(acc, n + 1, Len(acc)))

-----------------------------------------------------------------------------
(* export_to_csv *)

fieldnames ==
    <<"company_name", "funding_amount_parsed", "location", "status",
      "ipo_status", "funding_round", "description", "website", "founded_year">>

\* csv.DictWriter(..., extrasaction='ignore'): the named columns only, a
\* missing key or None written as the empty text
CsvRow(startup) ==
    [k \in Range(fieldnames) |->
        IF k \in DOMAIN startup /\ startup[k] # None THEN startup[k] ELSE <<>>]

\* open(filename, 'a'): the bug of appending to what the file held
AppendRows(old, rows) == old \o rows

\* open(filename, 'w') and writer.writerows: the file holds the new rows only
WriteRows(old, rows) == rows

-----------------------------------------------------------------------------
(* The input: what csv.DictReader can hand to load_manual_data *)

\* a dict with the key replaced
With(d, key, value) == (key :> value) @@ d

\* a dict without the key: the header of the file has no such column
Without(d, key) == [k \in DOMAIN d \ {key} |-> d[k]]

\* a complete row that meets all four criteria
R_Base ==
    [company_name |-> <<"A">>,
     funding_amount |-> <<"1", "5", "0", "M">>,
     location |-> <<"A", "u", "s", "t", "i", "n", ",", " ", "U", "S", "A">>,
     status |-> <<"a", "c", "t", "i", "v", "e">>,
     ipo_status |-> <<"p", "r", "i", "v", "a", "t", "e">>]

R_AtThreshold ==
    With(R_Base, "funding_amount",
         <<"1", "0", "0", "0", "0", "0", "0", "0", "0">>)

R_BelowThreshold ==
    With(R_Base, "funding_amount",
         <<"9", "9", "0", "0", "0", "0", "0", "0">>)

R_Billions == With(R_Base, "funding_amount", <<"$", "2", ".", "3", "B">>)

R_Unparsable == With(R_Base, "funding_amount", <<"a", "b", "c">>)

R_EmptyFunding == With(R_Base, "funding_amount", <<>>)

R_Fraction3 ==
    With(R_Base, "funding_amount",
         <<"1", "0", "0", "0", "0", "0", "0", "0", "0", ".", "3">>)

R_Fraction4 ==
    With(R_Base, "funding_amount",
         <<"1", "0", "0", "0", "0", "0", "0", "0", "0", ".", "4">>)

\* a short row: the reader fills the missing value with None
R_NoneFunding == With(R_Base, "funding_amount", None)

R_NoFunding == Without(R_Base, "funding_amount")

R_Berlin ==
    With(R_Base, "location",
         <<"B", "e", "r", "l", "i", "n", ",", " ", "G", "e", "r", "m", "a", "n", "y">>)

R_BerlinLower ==
    With(R_Base, "location",
         <<"b", "e", "r", "l", "i", "n", ",", " ", "g", "e", "r", "m", "a", "n", "y">>)

R_Tokyo ==
    With(R_Base, "location",
         <<"T", "o", "k", "y", "o", ",", " ", "J", "a", "p", "a", "n">>)

R_Belarus == With(R_Base, "location", <<"B", "e", "l", "a", "r", "u", "s">>)

R_EmptyLocation == With(R_Base, "location", <<>>)

\* a short row: the reader fills the missing value with None
R_NoneLocation == With(R_Base, "location", None)

R_NoLocation == Without(R_Base, "location")

R_Hiring ==
    With(R_Base, "status",
         <<"A", "c", "t", "i", "v", "e", ",", " ", "h", "i", "r", "i", "n", "g">>)

R_Inactive ==
    With(R_Base, "status",
         <<"i", "n", "a", "c", "t", "i", "v", "e">>)

R_Closed == With(R_Base, "status", <<"c", "l", "o", "s", "e", "d">>)

R_EmptyStatus == With(R_Base, "status", <<>>)

\* a short row: the reader fills the missing value with None
R_NoneStatus == With(R_Base, "status", None)

R_NoStatus == Without(R_Base, "status")

R_Ipo == With(R_Base, "ipo_status", <<"I", "P", "O">>)

R_Public == With(R_Base, "ipo_status", <<"P", "u", "b", "l", "i", "c">>)

R_Listed == With(R_Base, "ipo_status", <<"l", "i", "s", "t", "e", "d">>)

R_IpoPending ==
    With(R_Base, "ipo_status",
         <<"i", "p", "o", " ", "p", "e", "n", "d", "i", "n", "g">>)

R_EmptyIpo == With(R_Base, "ipo_status", <<>>)

\* a short row: the reader fills the missing value with None
R_NoneIpo == With(R_Base, "ipo_status", None)

R_NoIpo == Without(R_Base, "ipo_status")

\* a file that already has a 'funding_amount_parsed' column
R_Preset == With(R_Base, "funding_amount_parsed", <<"$", "1">>)

\* an unparsable amount in a file without a 'company_name' column
R_Nameless == Without(R_Unparsable, "company_name")

\* an unparsable amount in a short row: float() raises before .lower() runs
R_UnparsableShort == With(R_Unparsable, "location", None)

Rows ==
    {R_Base, R_AtThreshold, R_BelowThreshold, R_Billions, R_Unparsable,
     R_EmptyFunding, R_Fraction3, R_Fraction4, R_NoneFunding, R_NoFunding,
     R_Berlin, R_BerlinLower, R_Tokyo, R_Belarus, R_EmptyLocation,
     R_NoneLocation, R_NoLocation, R_Hiring, R_Inactive, R_Closed,
     R_EmptyStatus, R_NoneStatus, R_NoStatus, R_Ipo, R_Public, R_Listed,
     R_IpoPending, R_EmptyIpo, R_NoneIpo, R_NoIpo, R_Preset, R_Nameless,
     R_UnparsableShort}

RECURSIVE SeqsUpTo(_, _)
\* the sequences over S of length at most n
SeqsUpTo(S, n) ==
    IF n = 0 THEN {<<>>}
    ELSE LET shorter == SeqsUpTo(S, n - 1)
         IN  shorter \cup {Append(q, x) : q \in {p \in shorter : Len(p) = n - 1},
                                          x \in S}

\* 'input_data.csv' is missing, cannot be read, or holds rows
Missing == [state |-> "missing", rows |-> <<>>]

Unreadable == [state |-> "unreadable", rows |-> <<>>]

Holding(rows) == [state |-> "present", rows |-> rows]

\* the rows combined into files of several rows
CoreRows ==
    {R_Base, R_AtThreshold, R_Fraction3, R_Fraction4, R_Berlin, R_BerlinLower,
     R_Tokyo, R_Unparsable, R_NoneLocation, R_Preset}

\* the files load_manual_data is given: every row alone, and every sequence
\* of at most MaxRows of the core rows
InputFiles ==
    {Missing, Unreadable} \cup {Holding(<<r>>) : r \in Rows}
    \cup {Holding(q) : q \in SeqsUpTo(CoreRows, MaxRows)}

EmptyTally == [loc \in {} |-> 0]

\* the funding_amount_parsed values of the dicts a call returned
Shown(dicts, refs) ==
    [k \in 1..Len(refs) |-> dicts[refs[k]]["funding_amount_parsed"]]

\* the record of one filter_startups call: r is what RunFilter computed
CallRecord(r) ==
    [filtered |-> IF r.raised = "none" THEN r.filtered ELSE <<>>,
     shown |-> IF r.raised = "none" THEN Shown(r.startups, r.filtered) ELSE <<>>,
     skipped |-> r.skipped,
     outcomes |-> r.outcomes,
     raised |-> r.raised]

-----------------------------------------------------------------------------
(* The tracker: one StartupTracker and the calls made on it *)

Init ==
    /\ input_file = Missing
    /\ results_file = Missing
    /\ template_file = FALSE
    /\ startups = <<>>
    /\ filtered = <<>>
    /\ skipped = <<>>
    /\ raised = "none"
    /\ locations = EmptyTally
    /\ sorted_startups = <<>>
    /\ pc = "init"
    /\ calls = <<>>
    /\ before = <<>>
    /\ funding_amount = <<>>
    /\ funding_str = <<>>
    /\ funding = ValueError

\* load_manual_data(filename): the file is what the caller's disk holds
load_manual_data ==
    /\ pc = "init"
    /\ \E f \in InputFiles :
        /\ input_file' = f
        /\ IF f.state = "present"
           THEN startups' = f.rows /\ pc' = "loaded"
           ELSE UNCHANGED startups /\ pc' = "load_failed"
    /\ UNCHANGED <<results_file, template_file, filtered, skipped, raised,
                   locations, sorted_startups, calls, before, funding_amount,
                   funding_str, funding>>

\* filter_startups(): returns filtered, or ends with the exception raised
filter_startups ==
    /\ pc \in {"loaded", "filtered", "raised"}
    /\ Len(calls) < MaxCalls
    /\ \E r \in {RunFilter(startups)} :
           /\ startups' = r.startups
           /\ filtered' = IF r.raised = "none" THEN r.filtered ELSE <<>>
           /\ skipped' = r.skipped
           /\ raised' = r.raised
           /\ pc' = IF r.raised = "none" THEN "filtered" ELSE "raised"
           /\ calls' = Append(calls, CallRecord(r))
           /\ before' = startups
    /\ UNCHANGED <<input_file, results_file, template_file, locations,
                   sorted_startups, funding_amount, funding_str, funding>>

\* display_summary(filtered_startups), on the list filter_startups returned
display_summary ==
    /\ pc = "filtered"
    /\ IF filtered = <<>>
       THEN UNCHANGED <<locations, sorted_startups>>
       ELSE /\ locations' = CountLocations(startups, filtered, EmptyTally)
            /\ sorted_startups' = SortedDescending(startups, filtered, <<>>)
    /\ pc' = "summarized"
    /\ UNCHANGED <<input_file, results_file, template_file, startups, filtered,
                   skipped, raised, calls, before, funding_amount, funding_str,
                   funding>>

\* what export_to_csv(filtered_startups, filename) leaves in the file:
\* untouched when the list is empty or open() raises, rewritten otherwise
Exported(file, dicts, refs, writable) ==
    IF refs = <<>> \/ ~writable THEN file
    ELSE Holding(WriteRows(file.rows, [k \in 1..Len(refs) |-> CsvRow(dicts[refs[k]])]))

\* export_to_csv(filtered_startups, filename)
export_to_csv ==
    /\ pc = "summarized"
    /\ \E writable \in BOOLEAN :
        /\ results_file' = Exported(results_file, startups, filtered, writable)
        /\ pc' = IF filtered # <<>> /\ writable THEN "exported" ELSE "not_exported"
    /\ UNCHANGED <<input_file, template_file, startups, filtered, skipped,
                   raised, locations, sorted_startups, calls, before,
                   funding_amount, funding_str, funding>>

Next == load_manual_data \/ filter_startups \/ display_summary \/ export_to_csv

Spec == Init /\ [][Next]_vars

-----------------------------------------------------------------------------
(* The normalization of one funding text: lines 55 to 63 on their own *)

FundingAlphabet ==
    {"0", "1", "5", ".", "-", "M", "m", "B", "b", "$", ",", " ", "a"}

FundingExamples ==
    {<<"1", "5", "0", "0", "0", "0", "0", "0", "0">>,
     <<"1", "5", "0", "M">>,
     <<"$", "2", ".", "3", "B">>,
     <<"a", "b", "c">>,
     <<"2", "B", "M">>,
     <<"3", "m", "b">>,
     <<"1", "5", "0", " ", "M">>,
     <<"$", "1", ",", "5", "0", "0", "m">>}

FundingTexts == SeqsUpTo(FundingAlphabet, MaxFundingLen) \cup FundingExamples

InitNorm ==
    /\ funding_amount \in FundingTexts
    /\ pc = "text"
    /\ input_file = Missing
    /\ results_file = Missing
    /\ template_file = FALSE
    /\ startups = <<>>
    /\ filtered = <<>>
    /\ skipped = <<>>
    /\ raised = "none"
    /\ locations = EmptyTally
    /\ sorted_startups = <<>>
    /\ calls = <<>>
    /\ before = <<>>
    /\ funding_str = <<>>
    /\ funding = ValueError

\* funding_str = ....replace(',', '').replace('$', '') and the if / elif /
\* else after it: funding is assigned, or float() raises ValueError
parse_funding_amount ==
    /\ pc = "text"
    /\ funding_str' = CleanFunding(funding_amount)
    /\ funding' = ParseFunding(funding_str')
    /\ pc' = IF funding'.ok THEN "parsed" ELSE "ValueError"
    /\ UNCHANGED <<input_file, results_file, template_file, startups, filtered,
                   skipped, raised, locations, sorted_startups, calls, before,
                   funding_amount>>

NextNorm == parse_funding_amount

SpecNorm == InitNorm /\ [][NextNorm]_vars

-----------------------------------------------------------------------------
(* main(): one run of the program after another, on the same directory *)

\* the rows of the files main is run on
MainRows == {R_Base, R_Berlin, R_Tokyo}

\* the files main finds: none, an unreadable one, two with a short row, and
\* every sequence of at most MaxRows of MainRows
MainFiles ==
    {Missing, Unreadable, Holding(<<R_NoneLocation>>),
     Holding(<<R_Base, R_NoneLocation>>)}
    \cup {Holding(q) : q \in SeqsUpTo(MainRows, MaxRows)}

\* main(): a new tracker; the template when there is no input file; else
\* load, filter, and, when some startup matched, summary and export.
\* f is 'input_data.csv' as the run finds it, writable whether
\* 'startup_results.csv' can be opened for writing.
main ==
    \E f \in MainFiles, writable \in BOOLEAN :
        /\ input_file' = f
        /\ template_file' = (template_file \/ f.state = "missing")
        /\ calls' = <<>>
        /\ before' = <<>>
        /\ UNCHANGED <<funding_amount, funding_str, funding>>
        /\ IF f.state # "present"
           THEN /\ pc' = IF f.state = "missing" THEN "no_input" ELSE "load_failed"
                /\ startups' = <<>>
                /\ filtered' = <<>>
                /\ skipped' = <<>>
                /\ raised' = "none"
                /\ locations' = EmptyTally
                /\ sorted_startups' = <<>>
                /\ UNCHANGED results_file
           ELSE \E r \in {RunFilter(f.rows)} :
                /\ startups' = r.startups
                /\ skipped' = r.skipped
                /\ raised' = r.raised
                /\ filtered' = IF r.raised = "none" THEN r.filtered ELSE <<>>
                /\ IF r.raised # "none" \/ r.filtered = <<>>
                   THEN /\ pc' = IF r.raised # "none" THEN "crashed" ELSE "no_match"
                        /\ locations' = EmptyTally
                        /\ sorted_startups' = <<>>
                        /\ UNCHANGED results_file
                   ELSE /\ locations' =
                               CountLocations(r.startups, r.filtered, EmptyTally)
                        /\ sorted_startups' =
                               SortedDescending(r.startups, r.filtered, <<>>)
                        /\ results_file' =
                               Exported(results_file, r.startups, r.filtered, writable)
                        /\ pc' = IF writable THEN "complete" ELSE "export_failed"

NextMain == main

SpecMain == Init /\ [][NextMain]_vars

-----------------------------------------------------------------------------
(* What the claims are stated in *)

\* the last filter_startups call on the tracker
LastCall == calls[Len(calls)]

\* the text a dict holds under key, the default when it has no such key
FieldText(d, key) == Get(d, key, <<>>)

\* d holds a text under key, or has no such key: it does not hold None
Readable(d, key) == Get(d, key, <<>>) # None

\* an amount is at least 100,000,000: not negative, nine integer digits or more
AtLeastHundredMillion(amount) ==
    amount.ok /\ ~amount.neg /\ Len(amount.ip) >= 9

\* the amount the funding text of d denotes ('0' when d has no funding text)
AmountOf(d) ==
    ParseFunding(CleanFunding(Get(d, "funding_amount", <<"0">>)))

FundingPasses(d) ==
    Readable(d, "funding_amount") /\ AtLeastHundredMillion(AmountOf(d))

LocationPasses(d) ==
    /\ Readable(d, "location")
    /\ \E k \in 1..Len(target_regions) :
           Contains(Lower(FieldText(d, "location")), target_regions[k])

StatusPasses(d) ==
    /\ Readable(d, "status")
    /\ \/ Contains(Lower(FieldText(d, "status")), <<"a", "c", "t", "i", "v", "e">>)
       \/ Lower(FieldText(d, "status")) = <<>>

IpoPasses(d) ==
    /\ Readable(d, "ipo_status")
    /\ Lower(FieldText(d, "ipo_status")) # <<"i", "p", "o">>
    /\ Lower(FieldText(d, "ipo_status")) # <<"p", "u", "b", "l", "i", "c">>
    /\ Lower(FieldText(d, "ipo_status")) # <<"l", "i", "s", "t", "e", "d">>

AllFourPass(d) ==
    FundingPasses(d) /\ LocationPasses(d) /\ StatusPasses(d) /\ IpoPasses(d)

\* funding texts and amounts the claims name
T150000000 == <<"1", "5", "0", "0", "0", "0", "0", "0", "0">>

T150M == <<"1", "5", "0", "M">>

T2p3B == <<"$", "2", ".", "3", "B">>

T2300000000 == <<"2", "3", "0", "0", "0", "0", "0", "0", "0", "0">>

Tabc == <<"a", "b", "c">>

\* the whole number with the digits ds
Whole(ds) == [ok |-> TRUE, neg |-> FALSE, ip |-> ds, fp |-> <<>>]

-----------------------------------------------------------------------------
(* C1 *)

\* C1: when filter_startups returns, the list it returns holds exactly the
\* records that meet all four criteria (funding at least 100,000,000, a
\* target-region keyword inside the lower-cased location, "active" inside the
\* lower-cased status or an empty status, a lower-cased ipo_status other than
\* "ipo", "public" and "listed"), and it holds them in input order; a record
\* with funding "100000000" is in it and one with "99000000" is not.
C1_ExactlyTheEligibleInOrder ==
    (pc = "filtered") =>
        /\ Range(filtered) = {i \in 1..Len(before) : AllFourPass(before[i])}
        /\ \A k \in 1..Len(filtered), l \in 1..Len(filtered) :
               k < l => filtered[k] < filtered[l]
        /\ \A i \in 1..Len(before) :
               /\ before[i] = R_AtThreshold => i \in Range(filtered)
               /\ before[i] = R_BelowThreshold => i \notin Range(filtered)

\* a call that returned the second of two records and not the first, the
\* second being at the threshold
C1_Witness ==
    /\ pc = "filtered"
    /\ before = <<R_Tokyo, R_AtThreshold>>
    /\ filtered = <<2>>

-----------------------------------------------------------------------------
(* C2 *)

\* C2: every filter_startups call returns a list, having evaluated every
\* record: no record, whatever its fields hold or lack, ends the call.
C2_AlwaysReturns ==
    (calls # <<>>) =>
        /\ LastCall.raised = "none"
        /\ Len(LastCall.outcomes) = Len(before)

-----------------------------------------------------------------------------
(* C3 *)

\* the cleaned text without the letter, in either case
WithoutLetter(text, upper, lower) == Remove(Remove(text, upper), lower)

\* C3: with every "," and "$" removed, a text holding "M" or "m" yields the
\* rest times 1,000,000, else one holding "B" or "b" the rest times
\* 1,000,000,000, else the number it denotes; "150000000" and "150M" give
\* 150,000,000 and "$2.3B" gives 2,300,000,000; a rest that is no number
\* ("abc", the empty text) is a parse failure, never an amount.
C3_Normalization ==
    (pc # "text") =>
        LET clean == Remove(Remove(funding_amount, ","), "$")
            hasM == "M" \in Range(clean) \/ "m" \in Range(clean)
            hasB == "B" \in Range(clean) \/ "b" \in Range(clean)
            rest == IF hasM THEN WithoutLetter(clean, "M", "m")
                    ELSE IF hasB THEN WithoutLetter(clean, "B", "b")
                    ELSE clean
            number == ParseFloat(rest)
        IN  /\ funding_str = clean
            /\ number.ok =>
                  /\ pc = "parsed"
                  /\ funding = TimesPow10(number, IF hasM THEN 6 ELSE IF hasB THEN 9 ELSE 0)
            /\ ~number.ok => pc = "ValueError" /\ ~funding.ok
            /\ funding_amount = T150000000 => funding = Whole(T150000000)
            /\ funding_amount = T150M => funding = Whole(T150000000)
            /\ funding_amount = T2p3B => funding = Whole(T2300000000)
            /\ funding_amount \in {Tabc, <<>>} => pc = "ValueError"

\* "$2.3B" normalized
C3_Witness ==
    /\ pc = "parsed"
    /\ funding_amount = T2p3B
    /\ funding = Whole(T2300000000)

-----------------------------------------------------------------------------
(* C4 *)

HasBothLetters(text) ==
    /\ "M" \in Range(Upper(text))
    /\ "B" \in Range(Upper(text))

\* C4 as claimed: a funding text that holds an "M" and a "B", in any case,
\* around a number is normalized to that number times 1,000,000.
C4_BothLettersMeanMillions ==
    (pc # "text" /\ HasBothLetters(funding_amount)) =>
        LET number == ParseFloat(Remove(Remove(Upper(CleanFunding(funding_amount)), "M"), "B"))
        IN  number.ok => pc = "parsed" /\ funding = TimesPow10(number, 6)

\* C4, amended: a funding text that holds an "M" and a "B", in any case, is
\* never normalized, neither as millions nor as billions: it is a parse
\* failure.
C4_BothLettersFail ==
    (pc # "text" /\ HasBothLetters(funding_amount)) =>
        pc = "ValueError" /\ ~funding.ok

\* "2BM" went through the normalization
C4_Witness ==
    /\ pc = "ValueError"
    /\ funding_amount = <<"2", "B", "M">>

-----------------------------------------------------------------------------
(* C5 *)

\* C5: a record that filter_startups evaluates and that passes the funding,
\* location and IPO criteria is eligible exactly when its lower-cased status
\* is empty (or it has none) or contains "active": so it is with no status,
\* with "Active, hiring" and with "inactive", and it is not with "closed".
C5_StatusBySubstring ==
    (calls # <<>>) =>
        \A i \in 1..Len(LastCall.outcomes) :
            LET d == before[i]
                eligible == LastCall.outcomes[i] = "eligible"
            IN  (/\ FundingPasses(d) /\ LocationPasses(d) /\ IpoPasses(d)
                 /\ Readable(d, "status")) =>
                    /\ eligible <=>
                          \/ "status" \notin DOMAIN d
                          \/ Lower(d["status"]) = <<>>
                          \/ Contains(Lower(d["status"]), <<"a", "c", "t", "i", "v", "e">>)
                    /\ d \in {R_NoStatus, R_EmptyStatus, R_Hiring, R_Inactive} => eligible
                    /\ d = R_Closed => ~eligible

\* a call that returned the record whose status is "inactive"
C5_Witness ==
    /\ pc = "filtered"
    /\ before = <<R_Inactive>>
    /\ filtered = <<1>>
    /\ LastCall.outcomes = <<"eligible">>

-----------------------------------------------------------------------------
(* C6 *)

\* C6: the ranking of display_summary is in descending order of the funding
\* amount the filter resolved for each record, and records with the same
\* amount keep their input order.
C6_RankedByResolvedAmount ==
    (pc = "summarized") =>
        \A i \in 1..Len(sorted_startups), j \in 1..Len(sorted_startups) :
            i < j =>
                /\ DecGE(AmountOf(startups[sorted_startups[i]]),
                         AmountOf(startups[sorted_startups[j]]))
                /\ AmountOf(startups[sorted_startups[i]])
                       = AmountOf(startups[sorted_startups[j]])
                   => sorted_startups[i] < sorted_startups[j]

-----------------------------------------------------------------------------
(* C7 *)

\* the data rows export_to_csv writes for the list the run's filter returned
RowsOfRun ==
    [k \in 1..Len(filtered) |-> CsvRow(startups[filtered[k]])]

\* C7 as claimed, for the runs in which filter_startups returned and the
\* output file could be opened: after the run the output file holds exactly
\* the rows of the records the run's filter returned, as many as it returned.
C7_FileHoldsTheRun ==
    (pc \in {"no_match", "complete"}) =>
        /\ Len(results_file.rows) = Len(filtered)
        /\ results_file.rows = RowsOfRun

\* C7, amended: a run of main that exports (it found at least one eligible
\* record and could open the output file) leaves in the output file exactly
\* the rows of the records its filter returned, none of an earlier run; every
\* other run, one with zero eligible records among them, leaves the output
\* file as it found it.
C7_RewrittenOnlyWhenExported ==
    [][/\ pc' = "complete" =>
             /\ results_file'.state = "present"
             /\ Len(results_file'.rows) = Len(filtered')
             /\ results_file'.rows = RowsOfRun'
       /\ pc' # "complete" => results_file' = results_file]_vars

\* a run with zero eligible records after a run that exported: the rows of
\* the earlier run are still in the file
C7_Witness ==
    /\ pc = "no_match"
    /\ filtered = <<>>
    /\ results_file.state = "present"
    /\ Len(results_file.rows) > 0

-----------------------------------------------------------------------------
(* C8 *)

\* C8 as claimed: after filter_startups, self.startups is as it was before.
C8_InputUntouched ==
    (calls # <<>>) => startups = before

\* C8, amended: filter_startups leaves the length and order of self.startups
\* and every field of every record as they were, except that it sets
\* 'funding_amount_parsed' on the records it finds eligible, and on no other.
C8_OnlyAnnotated ==
    (calls # <<>>) =>
        /\ Len(startups) = Len(before)
        /\ \A i \in 1..Len(before) :
               /\ Without(startups[i], "funding_amount_parsed")
                      = Without(before[i], "funding_amount_parsed")
               /\ startups[i] # before[i] =>
                      /\ i <= Len(LastCall.outcomes)
                      /\ LastCall.outcomes[i] = "eligible"
               /\ (i <= Len(LastCall.outcomes) /\ LastCall.outcomes[i] = "eligible") =>
                      /\ "funding_amount_parsed" \in DOMAIN startups[i]
                      /\ startups[i]["funding_amount_parsed"]
                             = FormatFunding(AmountOf(before[i]))

\* a call on two records that annotated the second and left the first alone
C8_Witness ==
    /\ pc = "filtered"
    /\ before = <<R_Tokyo, R_Base>>
    /\ startups[1] = R_Tokyo
    /\ startups[2] # R_Base
    /\ startups[2]["funding_amount_parsed"]
           = <<"$", "1", "5", "0", ",", "0", "0", "0", ",", "0", "0", "0">>

-----------------------------------------------------------------------------
(* C9 *)

\* C9: every filter_startups call after the first on the same tracker ends as
\* the call before it did: the same records returned, in the same order, with
\* the same funding_amount_parsed.
C9_SameResultEveryCall ==
    \A n \in 2..Len(calls) :
        /\ calls[n].filtered = calls[n - 1].filtered
        /\ calls[n].shown = calls[n - 1].shown
        /\ calls[n].raised = calls[n - 1].raised

\* a second call that returned two records
C9_Witness ==
    /\ Len(calls) = 2
    /\ pc = "filtered"
    /\ calls[2].filtered = <<1, 2>>

-----------------------------------------------------------------------------
(* C10 *)

RECURSIVE SumOver(_, _)
\* the sum of f over the keys in S
SumOver(f, S) ==
    IF S = {} THEN 0
    ELSE LET x == CHOOSE y \in S : TRUE
         IN  f[x] + SumOver(f, S \ {x})

\* C10: the tally of display_summary has one key for each distinct verbatim
\* location of the eligible records, with the number of eligible records at
\* exactly that location; the counts add up to the number of eligible
\* records, every key contains a target-region keyword once lower-cased, and
\* "Unknown" is no key.
C10_TallyByVerbatimLocation ==
    (pc = "summarized") =>
        /\ DOMAIN locations = {startups[filtered[k]]["location"] : k \in 1..Len(filtered)}
        /\ \A loc \in DOMAIN locations :
               /\ locations[loc] =
                      Cardinality({k \in 1..Len(filtered) :
                                      startups[filtered[k]]["location"] = loc})
               /\ \E r \in 1..Len(target_regions) :
                      Contains(Lower(loc), target_regions[r])
        /\ SumOver(locations, DOMAIN locations) = Len(filtered)
        /\ <<"U", "n", "k", "n", "o", "w", "n">> \notin DOMAIN locations

\* the tally of "Berlin, Germany" and "berlin, germany": two keys
C10_Witness ==
    /\ pc = "summarized"
    /\ before = <<R_Berlin, R_BerlinLower>>
    /\ Cardinality(DOMAIN locations) = 2
    /\ locations[R_Berlin["location"]] = 1
    /\ locations[R_BerlinLower["location"]] = 1

=============================================================================
